---- MODULE Spec2Model ----
(***************************************************************************)
(* Model of idb/cli/commands/approve.py: ApproveCommand.run_with_client.   *)
(*                                                                         *)
(* An invocation is one call of the coroutine run_with_client(args,        *)
(* client).  Its body has one suspension point, the await on               *)
(* client.approve (line 39); everything before it (lines 36-39) runs as    *)
(* one step of the event loop, and so does everything after it.            *)
(* The builtin exit(1) raises SystemExit(1), which ends the process.       *)
(***************************************************************************)
EXTENDS Naturals, Sequences, FiniteSets

\* ---------------------------------------------------------------- bounds
NumInvocations == 2     \* invocation slots of one process
MaxPerms == 2           \* longest permission list on the command line

\* ------------------------------------------------------ program constants
ExitCode == 1           \* exit(1)

\* choices=[...] of the "permissions" argument
Choices == {"photos", "camera", "contacts", "url"}

\* the text print() writes on the validation failure path
Diagnostic == "You need to specify --scheme when approving url permissions"

\* ----------------------------------------------------------------- inputs
Inv == 1 .. NumInvocations
Main == CHOOSE i \in Inv : \A j \in Inv : i <= j

BundleIds == {"com.example.app", "com.other.app"}

\* An Optional[str]: None is <<>>, the text s is <<s>>.
None == <<>>
Str(s) == <<s>>
Schemes == {None, Str(""), Str("myapp")}

\* nargs="+": one or more tokens, each one of the choices
PermLists == UNION {[1 .. n -> Choices] : n \in 1 .. MaxPerms}

\* the parsed Namespace
Args == [bundle_id : BundleIds, permissions : PermLists, scheme : Schemes]

\* the arguments used when several invocations share one process
ConcArgs == {a \in Args : a.permissions \in {<<"url">>, <<"camera">>}}

\* what the client's approve operation completes with
Faults == {"device not found", "app not installed"}
Ok == <<"ok">>
Fault(f) == <<"fault", f>>
Replies == {Ok} \cup {Fault(f) : f \in Faults}

VARIABLES
    args,         \* args[i]: the Namespace invocation i was called with
    pc,           \* pc[i]: where invocation i is
    reply,        \* reply[i]: what client.approve completed with, <<>> before
    trace,        \* trace[i]: the effects of invocation i, in program order
    exit_status   \* <<>> while the process runs, <<code>> once it has exited

vars == <<args, pc, reply, trace, exit_status>>

\* the process has not exited
Running == exit_status = <<>>

\* ------------------------------------------------------------ pure helpers
\* x in list
Contains(list, x) == \E k \in DOMAIN list : list[k] = x

\* bool(args.scheme): None and "" are falsy
Truthy(scheme) == scheme # None /\ scheme # Str("")

\* variant: only the first token is kept
PermissionSet_First(list) == {list[1]}

\* set(args.permissions)
PermissionSet(list) == {list[k] : k \in DOMAIN list}

\* variant: "url" in args.permissions and args.scheme is None
NeedsScheme_NoneOnly(a) == Contains(a.permissions, "url") /\ a.scheme = None

\* variant: not args.scheme
NeedsScheme_AnyPermission(a) == ~Truthy(a.scheme)

\* variant: no local validation, the rule is left to the remote side
NeedsScheme_Never(a) == FALSE

\* "url" in args.permissions and not args.scheme
NeedsScheme(a) == Contains(a.permissions, "url") /\ ~Truthy(a.scheme)

\* variant: exit(1); print(...)
AbortEffects_ExitFirst == << <<"exit", ExitCode>> >>

\* print(...); exit(1)
AbortEffects == << <<"print", Diagnostic>>, <<"exit", ExitCode>> >>

\* variant: the scheme keyword is not passed on
ApprovalRequest_NoScheme(a) ==
    [bundle_id |-> a.bundle_id,
     permissions |-> PermissionSet(a.permissions),
     scheme |-> None]

\* the keyword arguments of client.approve
ApprovalRequest(a) ==
    [bundle_id |-> a.bundle_id,
     permissions |-> PermissionSet(a.permissions),
     scheme |-> a.scheme]

\* variant: the client's fault is caught and replaced by another
Propagate_Translated(r) ==
    IF r = Ok THEN <<"return">> ELSE <<"raise", "approve failed">>

\* what the await expression does with the client's completion
Propagate(r) == IF r = Ok THEN <<"return">> ELSE <<"raise", r[2]>>

\* ---------------------------------------------------------------- actions
Init ==
    /\ args = [i \in Inv |-> <<>>]
    /\ pc = [i \in Inv |-> "idle"]
    /\ reply = [i \in Inv |-> <<>>]
    /\ trace = [i \in Inv |-> <<>>]
    /\ exit_status = <<>>

\* the framework calls run_with_client(args, client): the coroutine exists,
\* its body has not run yet
Invoke(i, a) ==
    /\ Running
    /\ pc[i] = "idle"
    /\ args' = [args EXCEPT ![i] = a]
    /\ pc' = [pc EXCEPT ![i] = "validating"]
    /\ UNCHANGED <<reply, trace, exit_status>>

\* variant: the diagnostic is printed, exit(1) is missing, the call is made
Validate_NoExit(i) ==
    /\ exit_status = <<>>
    /\ pc[i] = "validating"
    /\ trace' = [trace EXCEPT
                   ![i] = (IF NeedsScheme(args[i])
                           THEN Append(@, <<"print", Diagnostic>>)
                           ELSE @)
                          \o << <<"call", ApprovalRequest(args[i])>> >>]
    /\ pc' = [pc EXCEPT ![i] = "awaiting"]
    /\ UNCHANGED <<args, reply, exit_status>>

\* lines 36-39, up to the suspension at the await
Validate(i) ==
    /\ Running
    /\ pc[i] = "validating"
    /\ IF NeedsScheme(args[i])
       THEN /\ trace' = [trace EXCEPT ![i] = @ \o AbortEffects]
            /\ pc' = [pc EXCEPT ![i] = "aborted"]
            /\ exit_status' = <<ExitCode>>
       ELSE /\ trace' = [trace EXCEPT
                           ![i] = Append(@, <<"call", ApprovalRequest(args[i])>>)]
            /\ pc' = [pc EXCEPT ![i] = "awaiting"]
            /\ UNCHANGED exit_status
    /\ UNCHANGED <<args, reply>>

\* the client's approve operation completes, with success or with a fault
ClientReply(i, r) ==
    /\ Running
    /\ pc[i] = "awaiting"
    /\ reply[i] = <<>>
    /\ reply' = [reply EXCEPT ![i] = r]
    /\ UNCHANGED <<args, pc, trace, exit_status>>

\* variant: a failed call is issued again
Resume_Retry(i) ==
    /\ exit_status = <<>>
    /\ pc[i] = "awaiting"
    /\ reply[i] # <<>>
    /\ IF reply[i] = Ok
       THEN /\ trace' = [trace EXCEPT ![i] = Append(@, <<"return">>)]
            /\ pc' = [pc EXCEPT ![i] = "succeeded"]
            /\ UNCHANGED reply
       ELSE /\ trace' = [trace EXCEPT
                           ![i] = Append(@, <<"call", ApprovalRequest(args[i])>>)]
            /\ reply' = [reply EXCEPT ![i] = <<>>]
            /\ UNCHANGED pc
    /\ UNCHANGED <<args, exit_status>>

\* the coroutine resumes from the await and falls off the end of the body
Resume(i) ==
    /\ Running
    /\ pc[i] = "awaiting"
    /\ reply[i] # <<>>
    /\ trace' = [trace EXCEPT ![i] = Append(@, Propagate(reply[i]))]
    /\ pc' = [pc EXCEPT ![i] = IF reply[i] = Ok THEN "succeeded" ELSE "failed"]
    /\ UNCHANGED <<args, reply, exit_status>>

\* one command per process
Next ==
    \/ \E a \in Args : Invoke(Main, a)
    \/ Validate(Main)
    \/ \E r \in Replies : ClientReply(Main, r)
    \/ Resume(Main)

Spec == Init /\ [][Next]_vars

\* the event loop runs a ready coroutine, and the client's operation is one
\* that completes
FairSpec ==
    /\ Spec
    /\ WF_vars(Validate(Main))
    /\ WF_vars(\E r \in Replies : ClientReply(Main, r))
    /\ WF_vars(Resume(Main))

\* several invocations in one process, interleaved at the await
NextConc ==
    \E i \in Inv :
        \/ \E a \in ConcArgs : Invoke(i, a)
        \/ Validate(i)
        \/ \E r \in Replies : ClientReply(i, r)
        \/ Resume(i)

SpecConc == Init /\ [][NextConc]_vars

\* ------------------------------------------------------------- properties
\* positions of the events of one kind in the trace of invocation i
Events(i, tag) == {k \in DOMAIN trace[i] : trace[i][k][1] = tag}

\* the requests invocation i has handed to the client
Requests(i) == {trace[i][k][2] : k \in Events(i, "call")}

Invoked(i) == pc[i] # "idle"
Validated(i) == pc[i] \notin {"idle", "validating"}
Ended(i) == pc[i] \in {"succeeded", "failed", "aborted"}

HasUrl(i) == \E k \in DOMAIN args[i].permissions : args[i].permissions[k] = "url"
SchemeAbsent(i) == args[i].scheme = None \/ args[i].scheme = Str("")

Last(s) == s[Len(s)]
Reverse(s) == [k \in DOMAIN s |-> s[Len(s) + 1 - k]]

\* C1: an invocation whose permissions contain url and whose scheme is unset
\* or empty never calls the client's approve operation; once its validation
\* has run it has printed the missing --scheme diagnostic and ended the
\* process with exit status 1.
C1_UrlWithoutSchemeAborts ==
    \A i \in Inv :
        (Invoked(i) /\ HasUrl(i) /\ SchemeAbsent(i)) =>
            /\ Events(i, "call") = {}
            /\ Validated(i) =>
                /\ pc[i] = "aborted"
                /\ trace[i] = << <<"print", Diagnostic>>, <<"exit", 1>> >>
                /\ exit_status = <<1>>

C1_Witness ==
    \E i \in Inv :
        /\ pc[i] = "aborted"
        /\ args[i].permissions = <<"photos", "url">>
        /\ args[i].scheme = Str("")

\* C2: over any sequence or interleaving of invocations, no request handed
\* to the client has url in its permission set together with an unset or
\* empty scheme.
C2_NoUrlRequestWithoutScheme ==
    \A i \in Inv : \A r \in Requests(i) :
        ~("url" \in r.permissions /\ (r.scheme = None \/ r.scheme = Str("")))

C2_Witness ==
    \E i, j \in Inv :
        /\ i # j
        /\ pc[i] = "succeeded"
        /\ \E r \in Requests(i) : "url" \in r.permissions
        /\ pc[j] = "aborted"
        /\ args[j].scheme = Str("")

\* C3: an invocation whose permissions do not contain url never prints the
\* diagnostic and never aborts, whatever the scheme; once its validation
\* has run it has dispatched a request whose scheme is the supplied one.
C3_NoUrlDispatchesSchemeUnchanged ==
    \A i \in Inv :
        (Invoked(i) /\ ~HasUrl(i)) =>
            /\ Events(i, "print") = {}
            /\ Events(i, "exit") = {}
            /\ pc[i] # "aborted"
            /\ exit_status = <<>>
            /\ Validated(i) =>
                /\ Events(i, "call") # {}
                /\ \A r \in Requests(i) : r.scheme = args[i].scheme

C3_Witness ==
    \E i \in Inv :
        /\ pc[i] = "awaiting"
        /\ args[i].permissions = <<"camera">>
        /\ args[i].scheme = Str("")
        /\ \E r \in Requests(i) : r.scheme = Str("")

\* C4: an invocation whose permissions contain url and whose scheme is a
\* non-empty text does not abort; once its validation has run it has
\* dispatched a request carrying that scheme and the supplied bundle id.
C4_UrlWithSchemeDispatches ==
    \A i \in Inv :
        (Invoked(i) /\ HasUrl(i) /\ ~SchemeAbsent(i)) =>
            /\ pc[i] # "aborted"
            /\ Events(i, "exit") = {}
            /\ exit_status = <<>>
            /\ Validated(i) =>
                /\ Events(i, "call") # {}
                /\ \A r \in Requests(i) :
                    /\ r.scheme = args[i].scheme
                    /\ r.bundle_id = args[i].bundle_id

C4_Witness ==
    \E i \in Inv :
        /\ pc[i] = "succeeded"
        /\ args[i] = [bundle_id |-> "com.example.app",
                      permissions |-> <<"url", "photos">>,
                      scheme |-> Str("myapp")]
        /\ Requests(i) = {[bundle_id |-> "com.example.app",
                           permissions |-> {"url", "photos"},
                           scheme |-> Str("myapp")]}

\* C5: the permission set of a dispatched request holds exactly the tokens
\* that occur in the supplied list, and the same list in another order or
\* with its tokens repeated gives the same set.
C5_PermissionSetIsTokenSet ==
    \A i \in Inv : \A r \in Requests(i) :
        LET p == args[i].permissions IN
        /\ \A t \in Choices : t \in r.permissions <=> (\E k \in DOMAIN p : p[k] = t)
        /\ r.permissions \subseteq Choices
        /\ ApprovalRequest([args[i] EXCEPT !.permissions = Reverse(p)]).permissions
               = r.permissions
        /\ ApprovalRequest([args[i] EXCEPT !.permissions = p \o p]).permissions
               = r.permissions

C5_Witness ==
    \E i \in Inv :
        /\ Invoked(i)
        /\ args[i].permissions = <<"photos", "camera">>
        /\ \E r \in Requests(i) : r.permissions = {"camera", "photos"}

\* C6: when the client's operation has completed with a fault, the
\* invocation prints no diagnostic and does not exit with status 1, and
\* once it has resumed it has ended by raising that same fault.
C6_FaultPropagatesUnchanged ==
    \A i \in Inv :
        (reply[i] # <<>> /\ reply[i] # Ok) =>
            /\ Events(i, "print") = {}
            /\ Events(i, "exit") = {}
            /\ exit_status = <<>>
            /\ pc[i] \in {"awaiting", "failed"}
            /\ pc[i] = "failed" => Last(trace[i]) = <<"raise", reply[i][2]>>

C6_Witness ==
    \E i \in Inv :
        /\ pc[i] = "failed"
        /\ reply[i] = Fault("device not found")
        /\ Last(trace[i]) = <<"raise", "device not found">>

SilentSuccess(i) ==
    /\ Last(trace[i]) = <<"return">>
    /\ Events(i, "print") = {}
    /\ Events(i, "exit") = {}

ValidationAbort(i) ==
    /\ \E k \in Events(i, "print") : trace[i][k][2] = Diagnostic
    /\ \E k \in Events(i, "exit") : trace[i][k][2] = 1
    /\ exit_status = <<1>>

FaultPropagated(i) == Last(trace[i])[1] = "raise"

OutcomeCount(i) ==
    (IF SilentSuccess(i) THEN 1 ELSE 0)
    + (IF ValidationAbort(i) THEN 1 ELSE 0)
    + (IF FaultPropagated(i) THEN 1 ELSE 0)

\* C7: given that the client's operation completes, every invocation ends,
\* and an invocation that has ended shows exactly one of: silent success,
\* the diagnostic with exit status 1, the client's fault raised.
C7_ExactlyOneOutcome ==
    /\ [](\A i \in Inv : Ended(i) => OutcomeCount(i) = 1)
    /\ \A i \in Inv : (pc[i] = "validating") ~> Ended(i)

C7_Witness ==
    \E i \in Inv :
        /\ pc[i] = "succeeded"
        /\ SilentSuccess(i)
        /\ ~ValidationAbort(i)
        /\ ~FaultPropagated(i)

\* the request invocation i dispatches is a function of its own arguments
OwnRequestOnly(i) ==
    \A r \in Requests(i) :
        /\ r.bundle_id = args[i].bundle_id
        /\ r.scheme = args[i].scheme
        /\ r.permissions = {args[i].permissions[k] : k \in DOMAIN args[i].permissions}

\* C8: concurrent invocations are independent: each dispatches a request
\* made of its own arguments, ends with its own client's result, and no
\* invocation that is still validating or awaiting its client is cut short
\* by another invocation's outcome.
C8_InvocationsIndependent ==
    \A i \in Inv :
        /\ OwnRequestOnly(i)
        /\ pc[i] = "succeeded" => reply[i] = Ok
        /\ pc[i] = "failed" => reply[i] \in {Fault(f) : f \in Faults}
        /\ pc[i] \in {"validating", "awaiting"} => exit_status = <<>>

\* C9: an invocation calls the client at most once: not at all before its
\* validation or when it aborts, exactly once when validation passes, and
\* an invocation that has ended leaves its trace as it is.
C9_OneCallPerInvocation ==
    /\ [](\A i \in Inv :
            /\ Cardinality(Events(i, "call")) <= 1
            /\ pc[i] \in {"idle", "validating", "aborted"} => Events(i, "call") = {}
            /\ (Validated(i) /\ ~(HasUrl(i) /\ SchemeAbsent(i))) =>
                   Cardinality(Events(i, "call")) = 1)
    /\ [][\A i \in Inv : Ended(i) => trace'[i] = trace[i]]_vars

C9_Witness ==
    \E i \in Inv :
        /\ pc[i] = "failed"
        /\ Cardinality(Events(i, "call")) = 1

Edges ==
    {<<"idle", "validating">>,
     <<"validating", "aborted">>,
     <<"validating", "awaiting">>,
     <<"awaiting", "succeeded">>,
     <<"awaiting", "failed">>}

\* C10: an invocation moves only validating -> aborted, validating ->
\* awaiting, awaiting -> succeeded, awaiting -> failed; no call is made
\* before validation has run; the diagnostic is printed before the exit;
\* nothing leaves aborted, succeeded or failed.  (idle -> validating is the
\* call of the coroutine itself, before its body runs.)
C10_StateMachine ==
    /\ [][\A i \in Inv : pc'[i] # pc[i] => <<pc[i], pc'[i]>> \in Edges]_vars
    /\ [][\A i \in Inv : Ended(i) => (pc'[i] = pc[i] /\ trace'[i] = trace[i])]_vars
    /\ [](\A i \in Inv :
            /\ pc[i] \in {"idle", "validating"} => trace[i] = <<>>
            /\ \A k \in Events(i, "exit") :
                   \E j \in Events(i, "print") : j < k /\ trace[i][j][2] = Diagnostic
            /\ pc[i] = "aborted" => Events(i, "exit") # {})

C10_Witness ==
    \E i \in Inv :
        /\ pc[i] = "aborted"
        /\ trace[i][1][1] = "print"
        /\ trace[i][2][1] = "exit"

====
